---- MODULE Spec2Model ----
(***************************************************************************)
(* A model of stock_market_simulator.py: the Stock class (its trade list   *)
(* and its three metrics) and the StockMarket class (the symbol-to-Stock   *)
(* dictionary and the all-share index).                                    *)
(*                                                                         *)
(* Numbers are Python ints.  The result of a true division a / b is kept   *)
(* as the exact fraction num/den (unreduced); the result of                *)
(* prod ** (1.0 / n) is kept as the pair (radicand, degree).  Instants are *)
(* counted in minutes.  Stock objects live in a heap (the sequence         *)
(* stocks); a reference to a Stock is its index in the heap.  The clock    *)
(* datetime.now() is taken never to run backwards.                         *)
(***************************************************************************)
EXTENDS Integers, Sequences, FiniteSets

VARIABLES stocks,   \* the heap of Stock objects, in order of construction
          market,   \* the StockMarket object, once constructed
          given,    \* history: the list handed to StockMarket.__init__
          now,      \* the reading of datetime.now()
          call,     \* the call just made at this instant
          result    \* what that call returned or raised

vars == <<stocks, market, given, now, call, result>>

---------------------------------------------------------------------------
(* Bounds and input sets *)

MaxStocks == 2
MaxTrades == 2
MaxLedgerTrades == 2
MaxVwapTrades == 3

\* timedelta(minutes=15)
Window == 15

None == <<>>
Some(x) == <<x>>

\* The clock readings at which the calls of the whole program are made.
Instants == {0, 16}

\* Constructor arguments of the stocks of the whole program.
StockArgs == { <<"TEA", "Common", 0, None, 100>>,
               <<"GIN", "Preferred", 8, Some(2), 100>> }

\* Arguments of the calls of the whole program.
Quantities == {100}
TradeActions == {"buy"}
Prices == {110}

\* Constructor arguments of the stocks the two price metrics are computed on.
MetricStockArgs == {"TEA"} \X {"Common", "Preferred", "Other"} \X {0, 8, 23}
                     \X {None, Some(2), Some(3)} \X {60, 100}

MetricPrices == {-5, 0, 110, 120}

\* Arguments of record_trade on the ledger of one stock.
LedgerQuantities == {-1, 0, 2}
LedgerActions == {"buy", "sell", "hold"}
LedgerPrices == {-5, 0, 3}

\* Arguments of record_trade under the windowed price.
VwapQuantities == {0, 1, 3}
VwapPrices == {2, 4}
VwapInstants == {0, 1, 15, 16}

---------------------------------------------------------------------------
(* Values a call ends with *)

Value(n, d) == [kind |-> "value", exc |-> "", num |-> n, den |-> d]
Root(r, n) == [kind |-> "root", exc |-> "", num |-> r, den |-> n]
Raise(e) == [kind |-> "raise", exc |-> e, num |-> 0, den |-> 1]
ReturnsNone == [kind |-> "None", exc |-> "", num |-> 0, den |-> 1]

\* Python's a / b on numbers: ZeroDivisionError when b is zero.
TrueDiv(a, b) == IF b = 0 THEN Raise("ZeroDivisionError") ELSE Value(a, b)

\* sum(list): a left fold from 0.
RECURSIVE SumFrom(_, _)
SumFrom(acc, s) == IF s = <<>> THEN acc ELSE SumFrom(acc + Head(s), Tail(s))
Sum(s) == SumFrom(0, s)

\* math.prod(list): a left fold from 1.
RECURSIVE ProdFrom(_, _)
ProdFrom(acc, s) == IF s = <<>> THEN acc ELSE ProdFrom(acc * Head(s), Tail(s))
Prod(s) == ProdFrom(1, s)

---------------------------------------------------------------------------
(* class Stock *)

Stock(symbol, stock_type, last_dividend, fixed_dividend, par_value) ==
    [symbol |-> symbol, stock_type |-> stock_type,
     last_dividend |-> last_dividend, fixed_dividend |-> fixed_dividend,
     par_value |-> par_value, trades |-> <<>>]

dividend_yield_last(self, price) ==
    IF self.stock_type \in {"Common", "Preferred"}
    THEN TrueDiv(self.last_dividend, price)
    ELSE ReturnsNone
dividend_yield(self, price) ==
    IF self.stock_type = "Common"
    THEN TrueDiv(self.last_dividend, price)
    ELSE IF self.stock_type = "Preferred"
    THEN IF self.fixed_dividend = None
         THEN Raise("TypeError")
         ELSE TrueDiv(self.fixed_dividend[1] * self.par_value, price)
    ELSE ReturnsNone

pe_ratio_swapped(self, price) == TrueDiv(self.last_dividend, price)
pe_ratio(self, price) == TrueDiv(price, self.last_dividend)

Trade(t, quantity, action, price) ==
    [timestamp |-> t, quantity |-> quantity, action |-> action, price |-> price]

record_trade_front(self, t, quantity, action, price) ==
    [self EXCEPT !.trades = <<Trade(t, quantity, action, price)>> \o @]
record_trade(self, t, quantity, action, price) ==
    [self EXCEPT !.trades = Append(@, Trade(t, quantity, action, price))]

InWindow(trade, t) == t - trade.timestamp <= Window

volume_weighted_stock_price_strict(self, t) ==
    LET past == SelectSeq(self.trades, LAMBDA trade : t - trade.timestamp < Window)
        trade_sum == Sum([k \in 1..Len(past) |-> past[k].quantity * past[k].price])
        quantity_sum == Sum([k \in 1..Len(past) |-> past[k].quantity])
    IN  TrueDiv(trade_sum, quantity_sum)
volume_weighted_stock_price_zero(self, t) ==
    LET past == SelectSeq(self.trades, LAMBDA trade : InWindow(trade, t))
        trade_sum == Sum([k \in 1..Len(past) |-> past[k].quantity * past[k].price])
        quantity_sum == Sum([k \in 1..Len(past) |-> past[k].quantity])
    IN  IF past = <<>> THEN Value(0, 1) ELSE TrueDiv(trade_sum, quantity_sum)
volume_weighted_stock_price(self, t) ==
    LET past_15_minutes_trades ==
            SelectSeq(self.trades, LAMBDA trade : InWindow(trade, t))
        trade_sum ==
            Sum([k \in 1..Len(past_15_minutes_trades) |->
                    past_15_minutes_trades[k].quantity * past_15_minutes_trades[k].price])
        quantity_sum ==
            Sum([k \in 1..Len(past_15_minutes_trades) |->
                    past_15_minutes_trades[k].quantity])
    IN  TrueDiv(trade_sum, quantity_sum)

---------------------------------------------------------------------------
(* class StockMarket *)

\* d[key] = value on a dict kept as the sequence of its items in insertion
\* order: an existing key keeps its place and takes the new value.
DictSet(d, key, value) ==
    IF \E k \in 1..Len(d) : d[k].key = key
    THEN [k \in 1..Len(d) |->
            IF d[k].key = key THEN [key |-> key, value |-> value] ELSE d[k]]
    ELSE Append(d, [key |-> key, value |-> value])

\* {stock.symbol: stock for stock in stocks}, refs being references into heap
RECURSIVE DictFrom(_, _, _)
DictFrom(d, refs, heap) ==
    IF refs = <<>> THEN d
    ELSE DictFrom(DictSet(d, heap[Head(refs)].symbol, Head(refs)), Tail(refs), heap)

StockMarket(refs, heap) == [constructed |-> TRUE, stocks |-> DictFrom(<<>>, refs, heap)]

NoMarket == [constructed |-> FALSE, stocks |-> <<>>]

\* the list prices after the loop over self.stocks.values()
RECURSIVE PricesOf(_, _, _)
PricesOf(prices, items, heap) ==
    IF items = <<>> THEN prices
    ELSE LET trades == heap[Head(items).value].trades
         IN  PricesOf(prices \o [k \in 1..Len(trades) |-> trades[k].price],
                      Tail(items), heap)

gbce_all_share_index_one(self, heap) ==
    LET prices == PricesOf(<<>>, self.stocks, heap)
    IN  IF Len(prices) = 0 THEN Value(1, 1) ELSE Root(Prod(prices), Len(prices))
gbce_all_share_index(self, heap) ==
    LET prices == PricesOf(<<>>, self.stocks, heap)
    IN  IF Len(prices) = 0
        THEN Raise("ZeroDivisionError")
        ELSE Root(Prod(prices), Len(prices))

---------------------------------------------------------------------------
(* The program as a state machine *)

Call(op, self, quantity, action, price) ==
    [op |-> op, self |-> self, quantity |-> quantity, action |-> action,
     price |-> price]

NoCall == Call("", 0, 0, "", 0)

TotalTrades == Sum([i \in 1..Len(stocks) |-> Len(stocks[i].trades)])

\* every list of distinct references to constructed Stock objects
RefLists == {refs \in UNION {[1..m -> 1..Len(stocks)] : m \in 0..Len(stocks)} :
                \A j, k \in 1..Len(refs) : refs[j] = refs[k] => j = k}

Init ==
    /\ stocks = <<>>
    /\ market = NoMarket
    /\ given = <<>>
    /\ now = 0
    /\ call = NoCall
    /\ result = ReturnsNone

NewStock(a) ==
    /\ stocks' = Append(stocks, Stock(a[1], a[2], a[3], a[4], a[5]))
    /\ call' = Call("Stock", Len(stocks) + 1, 0, "", 0)
    /\ result' = ReturnsNone
    /\ UNCHANGED <<market, given, now>>

NewMarket(refs) ==
    /\ ~market.constructed
    /\ market' = StockMarket(refs, stocks)
    /\ given' = refs
    /\ call' = Call("StockMarket", 0, 0, "", 0)
    /\ result' = ReturnsNone
    /\ UNCHANGED <<stocks, now>>

RecordTrade(i, quantity, action, price) ==
    /\ stocks' = [stocks EXCEPT ![i] = record_trade(@, now, quantity, action, price)]
    /\ call' = Call("record_trade", i, quantity, action, price)
    /\ result' = ReturnsNone
    /\ UNCHANGED <<market, given, now>>

DividendYield(i, price) ==
    /\ call' = Call("dividend_yield", i, 0, "", price)
    /\ result' = dividend_yield(stocks[i], price)
    /\ UNCHANGED <<stocks, market, given, now>>

PeRatio(i, price) ==
    /\ call' = Call("pe_ratio", i, 0, "", price)
    /\ result' = pe_ratio(stocks[i], price)
    /\ UNCHANGED <<stocks, market, given, now>>

VwspPruning(i) ==
    /\ call' = Call("volume_weighted_stock_price", i, 0, "", 0)
    /\ result' = volume_weighted_stock_price(stocks[i], now)
    /\ stocks' = [stocks EXCEPT ![i].trades =
                     SelectSeq(@, LAMBDA trade : InWindow(trade, now))]
    /\ UNCHANGED <<market, given, now>>
Vwsp(i) ==
    /\ call' = Call("volume_weighted_stock_price", i, 0, "", 0)
    /\ result' = volume_weighted_stock_price(stocks[i], now)
    /\ UNCHANGED <<stocks, market, given, now>>

Index ==
    /\ market.constructed
    /\ call' = Call("gbce_all_share_index", 0, 0, "", 0)
    /\ result' = gbce_all_share_index(market, stocks)
    /\ UNCHANGED <<stocks, market, given, now>>

\* Time passes between calls.
Tick(t) ==
    /\ t > now
    /\ now' = t
    /\ call' = NoCall
    /\ result' = ReturnsNone
    /\ UNCHANGED <<stocks, market, given>>

Next ==
    \/ \E a \in StockArgs : Len(stocks) < MaxStocks /\ NewStock(a)
    \/ \E refs \in RefLists : NewMarket(refs)
    \/ \E i \in 1..Len(stocks), q \in Quantities, a \in TradeActions, p \in Prices :
          TotalTrades < MaxTrades /\ RecordTrade(i, q, a, p)
    \/ \E i \in 1..Len(stocks), p \in Prices : DividendYield(i, p)
    \/ \E i \in 1..Len(stocks), p \in Prices : PeRatio(i, p)
    \/ \E i \in 1..Len(stocks) : Vwsp(i)
    \/ Index
    \/ \E t \in Instants : Tick(t)

Spec == Init /\ [][Next]_vars

\* One constructed Stock and nothing else.
InitStock(a) ==
    /\ stocks = <<Stock(a[1], a[2], a[3], a[4], a[5])>>
    /\ market = NoMarket
    /\ given = <<>>
    /\ now = 0
    /\ call = NoCall
    /\ result = ReturnsNone

\* The two price metrics on a Stock of any constructor arguments.
InitMetrics == \E a \in MetricStockArgs : InitStock(a)

NextMetrics ==
    \/ \E p \in MetricPrices : DividendYield(1, p)
    \/ \E p \in MetricPrices : PeRatio(1, p)

SpecMetrics == InitMetrics /\ [][NextMetrics]_vars

\* The methods of one Stock under record_trade calls of any arguments.
InitLedger == \E a \in StockArgs : InitStock(a)

NextLedger ==
    \/ \E q \in LedgerQuantities, a \in LedgerActions, p \in LedgerPrices :
          TotalTrades < MaxLedgerTrades /\ RecordTrade(1, q, a, p)
    \/ \E p \in Prices : DividendYield(1, p)
    \/ \E p \in Prices : PeRatio(1, p)
    \/ Vwsp(1)
    \/ \E t \in Instants : Tick(t)

SpecLedger == InitLedger /\ [][NextLedger]_vars

\* The windowed price of a Stock as its trades age.
NextVwap ==
    \/ \E q \in VwapQuantities, p \in VwapPrices :
          TotalTrades < MaxVwapTrades /\ RecordTrade(1, q, "buy", p)
    \/ Vwsp(1)
    \/ \E t \in VwapInstants : Tick(t)

SpecVwap == InitLedger /\ [][NextVwap]_vars

---------------------------------------------------------------------------
(* The claims *)

\* the sum and the product of f over the finite set S, in no particular order
RECURSIVE SumOver(_, _)
SumOver(S, f) ==
    IF S = {} THEN 0
    ELSE LET x == CHOOSE y \in S : TRUE IN f[x] + SumOver(S \ {x}, f)

RECURSIVE ProdOver(_, _)
ProdOver(S, f) ==
    IF S = {} THEN 1
    ELSE LET x == CHOOSE y \in S : TRUE IN f[x] * ProdOver(S \ {x}, f)

IsPrefix(s, t) == Len(s) <= Len(t) /\ \A k \in 1..Len(s) : t[k] = s[k]

ValidTrade(quantity, action, price) ==
    quantity > 0 /\ price > 0 /\ action \in {"buy", "sell"}

Age(trade) == now - trade.timestamp

ReadOps == {"dividend_yield", "pe_ratio", "volume_weighted_stock_price",
            "gbce_all_share_index"}

\* C1: a record_trade call whose quantity is <= 0, whose price is <= 0 or
\* whose action is neither 'buy' nor 'sell' ends in an error, and no such
\* trade is ever in a Stock's trade list.
C1_InvalidTradeRejected ==
    /\ (call.op = "record_trade"
            /\ ~ValidTrade(call.quantity, call.action, call.price))
          => result.kind = "raise"
    /\ \A i \in 1..Len(stocks) : \A k \in 1..Len(stocks[i].trades) :
          LET trade == stocks[i].trades[k]
          IN  ValidTrade(trade.quantity, trade.action, trade.price)

\* C2: every step leaves each Stock's trade list a prefix of what it becomes,
\* and a record_trade call extends the list of its Stock by exactly one entry
\* at the end: the call's quantity, action and price, stamped with the
\* current instant.
C2_AppendOnly ==
    [][ /\ Len(stocks') >= Len(stocks)
        /\ \A i \in 1..Len(stocks) : IsPrefix(stocks[i].trades, stocks'[i].trades)
        /\ call'.op = "record_trade" =>
              stocks'[call'.self].trades =
                  Append(stocks[call'.self].trades,
                         [timestamp |-> now, quantity |-> call'.quantity,
                          action |-> call'.action, price |-> call'.price]) ]_vars

\* a record_trade has just appended a second, later and different trade
C2_Witness ==
    /\ call.op = "record_trade"
    /\ Len(stocks[call.self].trades) = 2
    /\ stocks[call.self].trades[1].quantity # stocks[call.self].trades[2].quantity
    /\ stocks[call.self].trades[1].action # stocks[call.self].trades[2].action
    /\ stocks[call.self].trades[1].price # stocks[call.self].trades[2].price
    /\ stocks[call.self].trades[1].timestamp < stocks[call.self].trades[2].timestamp
    /\ stocks[call.self].trades[2].timestamp = now

\* C3: the windowed price is sum(quantity * price) / sum(quantity) over
\* exactly the trades whose age is <= Window (the age Window included, any
\* older trade without effect); where that divisor is zero the call raises.
C3_VwapOverWindow ==
    call.op = "volume_weighted_stock_price" =>
        LET trades == stocks[call.self].trades
            S == {k \in 1..Len(trades) : Age(trades[k]) <= Window}
            n == SumOver(S, [k \in S |-> trades[k].quantity * trades[k].price])
            d == SumOver(S, [k \in S |-> trades[k].quantity])
        IN  IF d = 0
            THEN result.kind = "raise"
            ELSE result.kind = "value" /\ result.num * d = n * result.den

\* a price over one trade older than the window, one exactly at its edge and
\* a fresh one, the two counted ones differing in quantity and in price
C3_Witness ==
    /\ call.op = "volume_weighted_stock_price"
    /\ result.kind = "value"
    /\ LET trades == stocks[call.self].trades
       IN  /\ Len(trades) = 3
           /\ Age(trades[1]) > Window
           /\ Age(trades[2]) = Window
           /\ Age(trades[3]) < Window
           /\ trades[2].quantity > 0 /\ trades[3].quantity > 0
           /\ trades[2].quantity # trades[3].quantity
           /\ trades[2].price # trades[3].price
           /\ trades[1].price # trades[2].price

\* C4: with no trade of the Stock within the window (no trade at all, or
\* only older ones) the windowed price raises (Python's ZeroDivisionError
\* on 0 / 0); it returns nothing.
C4_NoTradesInWindow ==
    (/\ call.op = "volume_weighted_stock_price"
     /\ \A k \in 1..Len(stocks[call.self].trades) :
            Age(stocks[call.self].trades[k]) > Window)
        => result = Raise("ZeroDivisionError")

\* the price asked of a Stock whose trades are all older than the window
C4_Witness ==
    /\ call.op = "volume_weighted_stock_price"
    /\ Len(stocks[call.self].trades) >= 2
    /\ \A k \in 1..Len(stocks[call.self].trades) :
          /\ Age(stocks[call.self].trades[k]) > Window
          /\ stocks[call.self].trades[k].quantity > 0
    /\ result.kind = "raise"

\* C5: pe_ratio(price) raises if and only if last_dividend is 0; otherwise
\* it returns price / last_dividend.
C5_PeRatio ==
    call.op = "pe_ratio" =>
        LET last_dividend == stocks[call.self].last_dividend
        IN  /\ result.kind = "raise" <=> last_dividend = 0
            /\ last_dividend # 0 =>
                  /\ result.kind = "value"
                  /\ result.num * last_dividend = call.price * result.den

\* pe_ratio asked, at a positive price, of a Stock whose last dividend is 0
C5_Witness ==
    /\ call.op = "pe_ratio"
    /\ call.price > 0
    /\ stocks[call.self].last_dividend = 0
    /\ result = Raise("ZeroDivisionError")

\* C6: at a price > 0, dividend_yield of a Common stock is
\* last_dividend / price whatever its fixed dividend and par value, and of a
\* Preferred stock (one that has a fixed dividend) it is
\* fixed_dividend * par_value / price whatever its last dividend.
C6_DividendYield ==
    (call.op = "dividend_yield" /\ call.price > 0) =>
        LET self == stocks[call.self]
        IN  /\ self.stock_type = "Common" =>
                  /\ result.kind = "value"
                  /\ result.num * call.price = self.last_dividend * result.den
            /\ (self.stock_type = "Preferred" /\ self.fixed_dividend # None) =>
                  /\ result.kind = "value"
                  /\ result.num * call.price
                        = self.fixed_dividend[1] * self.par_value * result.den

\* the yield of a Preferred stock whose last dividend is not 0
C6_Witness ==
    /\ call.op = "dividend_yield"
    /\ call.price > 0
    /\ stocks[call.self].stock_type = "Preferred"
    /\ stocks[call.self].fixed_dividend # None
    /\ stocks[call.self].last_dividend > 0
    /\ result.kind = "value"

\* C7: dividend_yield(price) ends in an error for every price <= 0 and for
\* every Stock whose type is neither 'Common' nor 'Preferred'.
C7_DividendYieldRejects ==
    call.op = "dividend_yield" =>
        /\ call.price <= 0 => result.kind = "raise"
        /\ stocks[call.self].stock_type \notin {"Common", "Preferred"}
              => result.kind = "raise"

\* the references the market's dictionary holds
Registered == {market.stocks[k].value : k \in 1..Len(market.stocks)}

\* C8: with no trade on any Stock of the market (no Stock, or only Stocks
\* with empty trade lists) the index raises (Python's ZeroDivisionError on
\* 1.0 / 0).
C8_NoTrades ==
    (/\ call.op = "gbce_all_share_index"
     /\ SumOver(Registered, [i \in Registered |-> Len(stocks[i].trades)]) = 0)
        => result = Raise("ZeroDivisionError")

\* the index asked of a market that holds a Stock, none with a trade
C8_Witness ==
    /\ call.op = "gbce_all_share_index"
    /\ Registered # {}
    /\ \A i \in Registered : stocks[i].trades = <<>>
    /\ result.kind = "raise"

\* every trade of every Stock handed to StockMarket: (reference, position)
GivenTrades ==
    UNION {{<<i, k>> : k \in 1..Len(stocks[i].trades)} :
              i \in {given[j] : j \in 1..Len(given)}}

\* C9: the index is the n-th root of the product of the prices of every
\* trade of every Stock the market was constructed from, n being the number
\* of those trades.
C9_IndexOverGivenStocks ==
    (call.op = "gbce_all_share_index" /\ GivenTrades # {}) =>
        result = Root(ProdOver(GivenTrades,
                               [it \in GivenTrades |->
                                   stocks[it[1]].trades[it[2]].price]),
                      Cardinality(GivenTrades))

\* C10: a call of dividend_yield, pe_ratio, volume_weighted_stock_price or
\* gbce_all_share_index changes no Stock and not the market's dictionary; a
\* record_trade call changes nothing but the trade list of its own Stock.
C10_OnlyRecordTradeWrites ==
    [][ /\ call'.op \in ReadOps => (stocks' = stocks /\ market' = market)
        /\ call'.op = "record_trade" =>
              /\ market' = market
              /\ Len(stocks') = Len(stocks)
              /\ \A j \in 1..Len(stocks) :
                    stocks'[j] = [stocks[j] EXCEPT !.trades = stocks'[j].trades]
              /\ \A j \in 1..Len(stocks) :
                    j # call'.self => stocks'[j].trades = stocks[j].trades ]_vars

\* a metric has just been read from a Stock with a trade older than the
\* window, registered in a market next to another Stock with a trade
C10_Witness ==
    /\ call.op = "volume_weighted_stock_price"
    /\ market.constructed
    /\ \E k \in 1..Len(stocks[call.self].trades) :
          Age(stocks[call.self].trades[k]) > Window
    /\ \E j \in 1..Len(stocks) : j # call.self /\ stocks[j].trades # <<>>

====
